---- MODULE Spec2Model ----
(***************************************************************************)
(* Five-Word Chain (src/script.js): the randomized chain builder           *)
(* tryBuildChain and the game state machine driven by onKeyDown,           *)
(* completeWord, newGame and the interval timer.                           *)
(*                                                                         *)
(* Words are sequences of 5 one-letter strings.  JavaScript's undefined    *)
(* (a read past the end of an array) and null (tryBuildChain's failure     *)
(* value) are both written as the empty sequence; no word is empty, so     *)
(* neither is ever confused with a word or with a chain.                   *)
(***************************************************************************)
EXTENDS Integers, Sequences, FiniteSets, TLC

VARIABLES
    \* ---- tryBuildChain, one call (BuildSpec) ----
    tb_words,     \* parameter words
    maxTries,     \* parameter maxTries
    t,            \* attempt counter of the outer for loop
    chain,        \* chain under construction
    used,         \* Set of the words already in chain
    ok,           \* ok flag of the current attempt
    i,            \* index of the inner for loop
    pc,           \* position in tryBuildChain
    result,       \* returned value (Null for null)
    \* ---- the page (Spec) ----
    words,        \* game.words
    idx,          \* game.idx
    typed,        \* game.typed
    greenCount,   \* game.greenCount
    timerId,      \* game.timerId (0 for null)
    active,       \* game.active
    liveTimers,   \* ids of the intervals set and not yet cleared
    timerEl,      \* text of timerEl: "00:00", or "mm:ss" for any later time
    statusEl,     \* message shown by statusEl
    pending,      \* completeWord calls sleeping in sleep(200), oldest first
    cacheSet,     \* whether newGame._cache has been assigned
    cache,        \* newGame._cache
    loading,      \* newGame calls awaiting loadWords()
    csv,          \* the parsed content of words.csv
    last          \* history: why the last handler ignored its event, or "done"

tbVars   == <<tb_words, maxTries, t, chain, used, ok, i, pc, result>>
gameVars == <<words, idx, typed, greenCount, timerId, active>>
pageVars == <<words, idx, typed, greenCount, timerId, active, liveTimers,
              timerEl, statusEl, pending, cacheSet, cache, loading, csv, last>>
vars     == <<tbVars, pageVars>>

-----------------------------------------------------------------------------
(* Values *)

Undefined == <<>>
Null      == <<>>
NoLetter  == "undefined"

WordLen   == 5
ChainLen  == 5

\* The dictionaries' words: named by their letters.
ACBCA == <<"A", "C", "B", "C", "A">>
ABCAB == <<"A", "B", "C", "A", "B">>
BACCB == <<"B", "A", "C", "C", "B">>
BBACC == <<"B", "B", "A", "C", "C">>
CABAC == <<"C", "A", "B", "A", "C">>

\* Dictionaries as parseCSV returns them: lists of valid words, possibly with
\* repeated entries, possibly empty.  DictChain admits one chain (in the
\* order written) and has starts and picks that lead to a dead end.
DictEmpty   == <<>>
DictSmall   == <<ABCAB, BACCB, BBACC>>
DictRepeats == <<ACBCA, ABCAB, ACBCA, ABCAB, ACBCA>>
DictChain   == <<BBACC, ABCAB, CABAC, ACBCA, BACCB>>
DictChainRepeats == <<ACBCA, ABCAB, ACBCA, BACCB, BBACC, CABAC>>

Dictionaries == {DictEmpty, DictSmall, DictRepeats, DictChain, DictChainRepeats}

\* Bounds of the model.
MaxTries == 2

\* An attempt budget no counter reaches (maxTries = Infinity in JavaScript);
\* t stops counting at MaxTries, which no comparison with a budget can tell
\* from counting on.
Infinity == MaxTries + 1

Range(s) == {s[n] : n \in 1..Len(s)}

\* a[k] for a 0-based JavaScript index k: undefined past the end.
At(a, k) == IF k + 1 \in 1..Len(a) THEN a[k + 1] ELSE Undefined

-----------------------------------------------------------------------------
(* tryBuildChain *)

\* byFirst.get(l) || []  (buildIndexByFirstLetter keeps the order of words)
buildIndexByFirstLetter(ws, l) ==
    LET StartsWith(w) == w[1] = l IN SelectSeq(ws, StartsWith)

\* const need = prev[4]
need_firstLetter(prev) == prev[1]
need(prev) == prev[WordLen]

\* (byFirst.get(need) || []).filter(w => !used.has(w))
candidates_noUsedFilter(ws, prev, u) == buildIndexByFirstLetter(ws, need(prev))
candidates(ws, prev, u) ==
    LET Unused(w) == w \notin u
    IN  SelectSeq(buildIndexByFirstLetter(ws, need(prev)), Unused)

\* Math.floor(Math.random() * n): 0 when n = 0
randomIndex(n) == IF n = 0 THEN {0} ELSE 0..(n - 1)

\* for (let t=0; t<maxTries; ...): the test succeeds
ForEnter ==
    /\ pc = "for"
    /\ t < maxTries
    /\ pc' = "start"
    /\ UNCHANGED <<tb_words, maxTries, t, chain, used, ok, i, result>>
    /\ UNCHANGED pageVars

\* the test fails: return null
ReturnNull ==
    /\ pc = "for"
    /\ ~(t < maxTries)
    /\ pc' = "done"
    /\ result' = Null
    /\ UNCHANGED <<tb_words, maxTries, t, chain, used, ok, i>>
    /\ UNCHANGED pageVars

\* const w1 = words[random]; chain = [w1]; used = new Set([w1]); ok = true
PickStart(k) ==
    /\ pc = "start"
    /\ k \in randomIndex(Len(tb_words))
    /\ chain' = <<At(tb_words, k)>>
    /\ used' = {At(tb_words, k)}
    /\ ok' = TRUE
    /\ i' = 1
    /\ pc' = "inner"
    /\ UNCHANGED <<tb_words, maxTries, t, result>>
    /\ UNCHANGED pageVars

\* prev[4] with prev undefined: TypeError
Throw ==
    /\ pc = "inner"
    /\ chain[i] = Undefined
    /\ pc' = "threw"
    /\ UNCHANGED <<tb_words, maxTries, t, chain, used, ok, i, result>>
    /\ UNCHANGED pageVars

\* if (candidates.length === 0){ ok = false; break; }
Abort ==
    /\ pc = "inner"
    /\ chain[i] # Undefined
    /\ candidates(tb_words, chain[i], used) = <<>>
    /\ ok' = FALSE
    /\ pc' = "after"
    /\ UNCHANGED <<tb_words, maxTries, t, chain, used, i, result>>
    /\ UNCHANGED pageVars

\* pick = candidates[random]; chain.push(pick); used.add(pick); i++
PickNext(k) ==
    /\ pc = "inner"
    /\ chain[i] # Undefined
    /\ LET c == candidates(tb_words, chain[i], used) IN
        /\ c # <<>>
        /\ k \in randomIndex(Len(c))
        /\ chain' = Append(chain, At(c, k))
        /\ used' = used \cup {At(c, k)}
    /\ i' = i + 1
    /\ pc' = IF i + 1 < ChainLen THEN "inner" ELSE "after"
    /\ UNCHANGED <<tb_words, maxTries, t, ok, result>>
    /\ UNCHANGED pageVars

\* if (ok) return chain;
ReturnChain ==
    /\ pc = "after"
    /\ ok
    /\ pc' = "done"
    /\ result' = chain
    /\ UNCHANGED <<tb_words, maxTries, t, chain, used, ok, i>>
    /\ UNCHANGED pageVars

\* t++ and back to the loop test
NextAttempt ==
    /\ pc = "after"
    /\ ~ok
    /\ t' = IF t < MaxTries THEN t + 1 ELSE t
    /\ pc' = "for"
    /\ UNCHANGED <<tb_words, maxTries, chain, used, ok, i, result>>
    /\ UNCHANGED pageVars

\* One attempt from chain c with used set u, as the set of ways it can end:
\* the inner loop of tryBuildChain with every random pick.
RECURSIVE attemptOutcomes(_, _, _)
attemptOutcomes(ws, c, u) ==
    IF Len(c) = ChainLen THEN {[kind |-> "chain", chain |-> c]}
    ELSE IF c[Len(c)] = Undefined THEN {[kind |-> "throw", chain |-> Null]}
    ELSE LET cs == candidates(ws, c[Len(c)], u) IN
         IF cs = <<>> THEN {[kind |-> "abort", chain |-> Null]}
         ELSE UNION {attemptOutcomes(ws, Append(c, At(cs, k)), u \cup {At(cs, k)})
                        : k \in randomIndex(Len(cs))}

\* tryBuildChain(ws, mt) as the set of ways the call can end: a chain (the
\* first attempt that completes), null (every attempt aborted) or a throw.
tryBuildChain(ws, mt) ==
    IF mt = 0 THEN {[kind |-> "null", chain |-> Null]}
    ELSE LET a == UNION {attemptOutcomes(ws, <<At(ws, k)>>, {At(ws, k)})
                            : k \in randomIndex(Len(ws))}
         IN  {o \in a : o.kind \in {"chain", "throw"}}
             \cup (IF \E o \in a : o.kind = "abort"
                   THEN {[kind |-> "null", chain |-> Null]} ELSE {})

-----------------------------------------------------------------------------
(* newGame's chain: tryBuildChain, then up to 3 retries on a shuffled copy *)

DefaultMaxTries == 5000
MaxRetries == 3

swap(a, x, y) == [a EXCEPT ![x + 1] = a[y + 1], ![y + 1] = a[x + 1]]

\* shuffle(a), Fisher-Yates from index n down to 1, as the set of its results
RECURSIVE shuffleFrom(_, _)
shuffleFrom(a, n) ==
    IF n <= 0 THEN {a}
    ELSE UNION {shuffleFrom(swap(a, n, j), n - 1) : j \in randomIndex(n + 1)}

shuffle(a) == shuffleFrom(a, Len(a) - 1)

\* while (!chain && safety < 3){ chain = tryBuildChain(shuffle([...cache])); safety++ }
\* Each result carries the number of tryBuildChain calls made (safety + 1).
RECURSIVE retryLoop(_, _, _)
retryLoop(c, o, safety) ==
    IF o.kind = "null" /\ safety < MaxRetries
    THEN UNION {retryLoop(c, o2, safety + 1) :
                  o2 \in UNION {tryBuildChain(sh, DefaultMaxTries) : sh \in shuffle(c)}}
    ELSE {[kind |-> o.kind, chain |-> o.chain, calls |-> safety + 1]}

newGameChain(c) ==
    UNION {retryLoop(c, o, 0) : o \in tryBuildChain(c, DefaultMaxTries)}

\* The contents words.csv may have, and newGame's chain for each.
CsvFiles == {DictEmpty, DictSmall, DictRepeats, DictChain}

newGameChains == [d \in CsvFiles |-> newGameChain(d)]

-----------------------------------------------------------------------------
(* The page: keys, status messages, timer *)

\* Bounds of the model.
MaxPending == 2
MaxLoading == 1

Keys == {"a", "b", "C", "1", "Shift", "Enter", "Backspace"}

\* the characters of e.key
keyChars(key) ==
    CASE key = "a" -> <<"a">>
      [] key = "b" -> <<"b">>
      [] key = "C" -> <<"C">>
      [] key = "1" -> <<"1">>
      [] key = "Shift" -> <<"S", "h", "i", "f", "t">>
      [] key = "Enter" -> <<"E", "n", "t", "e", "r">>
      [] key = "Backspace" -> <<"B", "a", "c", "k", "s", "p", "a", "c", "e">>

LowerCase == {"a", "b", "c", "e", "f", "h", "i", "k", "n", "p", "r", "s", "t"}
UpperCase == {"A", "B", "C", "E", "S"}

\* /^[a-z]$/i.test(key)
isLetterKey(key) ==
    /\ Len(keyChars(key)) = 1
    /\ keyChars(key)[1] \in LowerCase \cup UpperCase

\* key.toUpperCase() of a one-character key
toUpperCase_asTyped(key) == key
toUpperCase(key) ==
    CASE key = "a" -> "A"
      [] key = "b" -> "B"
      [] key = "c" -> "C"
      [] OTHER -> key

Status(m, n, ch) == [msg |-> m, n |-> n, ch |-> ch]

\* target[pos] for a 0-based position: undefined past the end
charAt(w, pos) == IF pos + 1 \in 1..Len(w) THEN w[pos + 1] ELSE NoLetter

\* if (game.timerId) clearInterval(game.timerId)
clearTimer_keeps(live, id) == live
clearTimer(live, id) == IF id # 0 THEN live \ {id} ELSE live

\* the id setInterval returns.  Real ids are never reused; the only reference
\* to an id is game.timerId, which startTimer overwrites with the new id at
\* once, so the smallest id no live interval has stands for the fresh one.
freshTimerId(live) ==
    LET Free == (1..(Cardinality(live) + 1)) \ live
    IN  CHOOSE n \in Free : \A m \in Free : n <= m

-----------------------------------------------------------------------------
(* onKeyDown *)

\* total < 5
tooShort_below4(g, ty) == g + Len(ty) < 4
tooShort(g, ty) == g + Len(ty) < WordLen

\* game.greenCount + game.typed.length >= 5
bufferFull_above5(g, ty) == g + Len(ty) > WordLen
bufferFull(g, ty) == g + Len(ty) >= WordLen

\* for (i...){ if (typed[i] === target[pos]) newGreens++; else break; }
RECURSIVE scan_noBreak(_, _, _, _, _)
scan_noBreak(ty, target, g, k, newGreens) ==
    IF k >= Len(ty) THEN newGreens
    ELSE IF ty[k + 1] = charAt(target, g + k)
         THEN scan_noBreak(ty, target, g, k + 1, newGreens + 1)
         ELSE scan_noBreak(ty, target, g, k + 1, newGreens)

RECURSIVE scan_newOnly(_, _, _, _, _)
scan_newOnly(ty, target, g, k, newGreens) ==
    IF k >= Len(ty) THEN newGreens - g
    ELSE IF ty[k + 1] = charAt(target, g + k)
         THEN scan_newOnly(ty, target, g, k + 1, newGreens + 1)
         ELSE newGreens - g

RECURSIVE scan(_, _, _, _, _)
scan(ty, target, g, k, newGreens) ==
    IF k >= Len(ty) THEN newGreens
    ELSE IF ty[k + 1] = charAt(target, g + k)
         THEN scan(ty, target, g, k + 1, newGreens + 1)
         ELSE newGreens

\* const keepLen = ...; game.typed = "": keepLen is computed and not used
typedAfterSubmit_keepLen(ty, g) ==
    SubSeq(ty, 1, IF g - 1 < Len(ty) THEN g - 1 ELSE Len(ty))
typedAfterSubmit(ty, g) == <<>>

\* game.typed.slice(0, -1)
dropLast_first(ty) == SubSeq(ty, 2, Len(ty))
dropLast(ty) == SubSeq(ty, 1, Len(ty) - 1)

\* if (!game.active) return;
ignoresKeys_never(a) == FALSE
ignoresKeys(a) == ~a

keyInactive(key) ==
    /\ ignoresKeys(active)
    /\ last' = "key-inactive"
    /\ UNCHANGED <<gameVars, liveTimers, timerEl, statusEl, pending>>

\* Enter with total < 5: "Too short." and a shake
enterTooShort(key) ==
    /\ ~ignoresKeys(active)
    /\ key = "Enter"
    /\ tooShort(greenCount, typed)
    /\ statusEl' = Status("Too short.", 0, "")
    /\ last' = "enter-short"
    /\ UNCHANGED <<gameVars, liveTimers, timerEl, pending>>

\* Enter with total >= 5: the scan, the buffer cleared, then completeWord()
\* up to its sleep(200), or the position prompt
enterEvaluate(key) ==
    /\ ~ignoresKeys(active)
    /\ key = "Enter"
    /\ ~tooShort(greenCount, typed)
    /\ LET newGreens == scan(typed, At(words, idx), greenCount, 0, greenCount) IN
        /\ greenCount' = newGreens
        /\ typed' = typedAfterSubmit(typed, newGreens)
        /\ IF newGreens >= WordLen
           THEN /\ Len(pending) < MaxPending
                /\ pending' = Append(pending, "cur")
                /\ UNCHANGED statusEl
                /\ last' = "done"
           ELSE /\ statusEl' = Status("Good! Next letter is position", newGreens + 1, "")
                /\ UNCHANGED pending
                /\ last' = "done"
    /\ UNCHANGED <<words, idx, timerId, active, liveTimers, timerEl>>

\* Backspace: drop the last typed character, never a green one
backspace(key) ==
    /\ ~ignoresKeys(active)
    /\ key = "Backspace"
    /\ IF Len(typed) > 0
       THEN /\ typed' = dropLast(typed)
            /\ last' = "done"
       ELSE /\ UNCHANGED typed
            /\ last' = "backspace-empty"
    /\ UNCHANGED <<words, idx, greenCount, timerId, active, liveTimers, timerEl,
                   statusEl, pending>>

\* a letter: appended in upper case unless the row is full
letter(key) ==
    /\ ~ignoresKeys(active)
    /\ key \notin {"Enter", "Backspace"}
    /\ isLetterKey(key)
    /\ IF bufferFull(greenCount, typed)
       THEN /\ UNCHANGED typed
            /\ last' = "letter-full"
       ELSE /\ typed' = Append(typed, toUpperCase(key))
            /\ last' = "done"
    /\ UNCHANGED <<words, idx, greenCount, timerId, active, liveTimers, timerEl,
                   statusEl, pending>>

\* any other key falls through
otherKey(key) ==
    /\ ~ignoresKeys(active)
    /\ key \notin {"Enter", "Backspace"}
    /\ ~isLetterKey(key)
    /\ last' = "other-key"
    /\ UNCHANGED <<gameVars, liveTimers, timerEl, statusEl, pending>>

onKeyDown(key) ==
    /\ \/ keyInactive(key)
       \/ enterTooShort(key)
       \/ enterEvaluate(key)
       \/ backspace(key)
       \/ letter(key)
       \/ otherKey(key)
    /\ UNCHANGED <<cacheSet, cache, loading, csv>>
    /\ UNCHANGED tbVars

-----------------------------------------------------------------------------
(* completeWord after its sleep(200) *)

\* game.idx += 1
nextIdx_same(n) == n
nextIdx(n) == n + 1

\* game.greenCount = 0, then 1 when a next word is revealed
hintGreens_none(n) == 0
hintGreens(n) == IF n < ChainLen THEN 1 ELSE 0

completeWord ==
    /\ pending # <<>>
    /\ pending' = Tail(pending)
    /\ idx' = nextIdx(idx)
    /\ typed' = <<>>
    /\ greenCount' = hintGreens(idx')
    /\ IF idx' < ChainLen
       THEN /\ statusEl' = Status("Word", idx' + 1, charAt(At(words, idx'), 0))
            /\ UNCHANGED <<active, timerId, liveTimers>>
       ELSE /\ active' = FALSE
            /\ liveTimers' = clearTimer(liveTimers, timerId)
            /\ timerId' = 0
            /\ statusEl' = Status("Solved in", 0, timerEl)
    /\ last' = "done"
    /\ UNCHANGED <<words, timerEl, cacheSet, cache, loading, csv>>
    /\ UNCHANGED tbVars

-----------------------------------------------------------------------------
(* the interval timer *)

\* the setInterval callback: the time since timerStart, which only grows
tick(id) ==
    /\ id \in liveTimers
    /\ timerEl' \in {timerEl, "mm:ss"}
    /\ UNCHANGED <<gameVars, liveTimers, statusEl, pending, cacheSet, cache,
                   loading, csv, last>>
    /\ UNCHANGED tbVars

-----------------------------------------------------------------------------
(* newGame *)

\* "Reset visuals & state" to the end of newGame, with the chain c: no check
\* of c; the completeWord calls still sleeping are those of the old game.
install(c) ==
    /\ words' = c
    /\ idx' = 0
    /\ typed' = <<>>
    /\ greenCount' = 1
    /\ active' = TRUE
    /\ LET id == freshTimerId(clearTimer(liveTimers, timerId)) IN
         /\ timerId' = id
         /\ liveTimers' = clearTimer(liveTimers, timerId) \cup {id}
    /\ timerEl' = "00:00"
    /\ statusEl' = Status("Type letters. Word 1 starts with", 1, charAt(At(c, 0), 0))
    /\ pending' = [k \in 1..Len(pending) |-> "old"]
    /\ last' = "done"

\* if (!chain){ ...; return; }
gaveUp_never(o) == FALSE
gaveUp(o) == o.kind = "null"

\* newGame from "Building chain..." on, with the dictionary c.  The failure
\* message carries the number of tryBuildChain calls that were made.
build(c) ==
    \E o \in newGameChains[c] :
        \/ /\ o.kind = "throw"
           /\ statusEl' = Status("Building chain", 0, "")
           /\ last' = "done"
           /\ UNCHANGED <<gameVars, liveTimers, timerEl, pending>>
        \/ /\ o.kind # "throw"
           /\ gaveUp(o)
           /\ statusEl' = Status("Could not build a valid chain.", o.calls, "")
           /\ last' = "done"
           /\ UNCHANGED <<gameVars, liveTimers, timerEl, pending>>
        \/ /\ o.kind # "throw"
           /\ ~gaveUp(o)
           /\ install(o.chain)

\* a click on newBtn, or DOMContentLoaded
newGame ==
    /\ IF ~cacheSet
       THEN /\ loading < MaxLoading
            /\ loading' = loading + 1
            /\ statusEl' = Status("Loading words", 0, "")
            /\ last' = "done"
            /\ UNCHANGED <<gameVars, liveTimers, timerEl, pending>>
       ELSE /\ build(cache)
            /\ UNCHANGED loading
    /\ UNCHANGED <<cacheSet, cache, csv>>
    /\ UNCHANGED tbVars

\* loadWords() resolves: newGame._cache = list, and newGame goes on
loadWordsResolved ==
    /\ loading > 0
    /\ loading' = loading - 1
    /\ cacheSet' = TRUE
    /\ cache' = csv
    /\ build(cache')
    /\ UNCHANGED csv
    /\ UNCHANGED tbVars

\* fetch rejects: this newGame call ends there
loadWordsRejected ==
    /\ loading > 0
    /\ loading' = loading - 1
    /\ last' = "done"
    /\ UNCHANGED <<gameVars, liveTimers, timerEl, statusEl, pending, cacheSet,
                   cache, csv>>
    /\ UNCHANGED tbVars

-----------------------------------------------------------------------------
(* Specification of the page *)

PageInit ==
    /\ words = <<>>
    /\ idx = 0
    /\ typed = <<>>
    /\ greenCount = 0
    /\ timerId = 0
    /\ active = FALSE
    /\ liveTimers = {}
    /\ timerEl = "00:00"
    /\ statusEl = [msg |-> "", n |-> 0, ch |-> ""]
    /\ pending = <<>>
    /\ cacheSet = FALSE
    /\ cache = <<>>
    /\ loading = 0
    /\ last = "none"


Init ==
    /\ tb_words = <<>>
    /\ maxTries = 0
    /\ t = 0
    /\ chain = <<>>
    /\ used = {}
    /\ ok = TRUE
    /\ i = 0
    /\ pc = "idle"
    /\ result = Null
    /\ PageInit
    /\ csv \in CsvFiles

Next ==
    \/ newGame
    \/ loadWordsResolved
    \/ loadWordsRejected
    \/ \E key \in Keys : onKeyDown(key)
    \/ completeWord
    \/ \E id \in liveTimers : tick(id)

Spec == Init /\ [][Next]_vars

-----------------------------------------------------------------------------
(* Specification of one tryBuildChain call *)

BuildInit ==
    /\ tb_words \in Dictionaries
    /\ maxTries \in 0..Infinity
    /\ t = 0
    /\ chain = <<>>
    /\ used = {}
    /\ ok = TRUE
    /\ i = 0
    /\ pc = "for"
    /\ result = Null
    /\ PageInit
    /\ csv = DictEmpty

BuildNext ==
    \/ ForEnter
    \/ ReturnNull
    \/ \E k \in 0..(Len(tb_words) - 1) \cup {0} : PickStart(k)
    \/ Throw
    \/ Abort
    \/ \E k \in 0..(Len(tb_words) - 1) : PickNext(k)
    \/ ReturnChain
    \/ NextAttempt

BuildSpec == BuildInit /\ [][BuildNext]_vars

\* Fair random picks: with a valid chain c of the dictionary fixed, the pick
\* that extends the first j-1 words of c by its j-th word is made again and
\* again when it is possible again and again; the synchronous code itself
\* always runs on.
IsChain(c) ==
    /\ Len(c) = ChainLen
    /\ \A a, b \in 1..Len(c) : a # b => c[a] # c[b]
    /\ \A a \in 1..(Len(c) - 1) : c[a][WordLen] = c[a + 1][1]

ValidChains(ws) == {c \in [1..ChainLen -> Range(ws)] : IsChain(c)}

ChainsOf == [d \in Dictionaries |-> ValidChains(d)]

TargetOf == [d \in Dictionaries |->
                IF ChainsOf[d] = {} THEN Null ELSE CHOOSE c \in ChainsOf[d] : TRUE]

GoodPick(j) ==
    /\ TargetOf[tb_words] # Null
    /\ IF j = 1
       THEN \E k \in 0..(Len(tb_words) - 1) :
                PickStart(k) /\ chain' = SubSeq(TargetOf[tb_words], 1, 1)
       ELSE /\ chain = SubSeq(TargetOf[tb_words], 1, j - 1)
            /\ \E k \in 0..(Len(tb_words) - 1) :
                PickNext(k) /\ chain' = SubSeq(TargetOf[tb_words], 1, j)

FairBuildSpec ==
    /\ BuildSpec
    /\ WF_vars(BuildNext)
    /\ \A j \in 1..ChainLen : SF_vars(GoodPick(j))

-----------------------------------------------------------------------------
(* Properties of tryBuildChain *)

\* C1: any chain tryBuildChain returns, from any dictionary (repeated entries
\* included) and any random picks, has exactly 5 words, pairwise distinct,
\* with the last letter of each equal to the first letter of the next.
C1_ReturnedChainIsValid ==
    (pc = "done" /\ result # Null) =>
        /\ Len(result) = 5
        /\ \A a, b \in 1..5 : a # b => result[a] # result[b]
        /\ \A a \in 1..4 : result[a][5] = result[a + 1][1]
        /\ Range(result) \subseteq Range(tb_words)

\* a chain returned from a dictionary whose list repeats an entry
C1_Witness ==
    /\ pc = "done"
    /\ result # Null
    /\ tb_words = DictChainRepeats

\* C5: for every dictionary, the empty one and those with fewer than 5 words
\* included, and every maxTries >= 0, tryBuildChain makes at most maxTries
\* attempts, returns a chain or null, and never raises an exception.
C5_NeverThrows ==
    /\ pc # "threw"
    /\ t <= maxTries
    /\ pc = "done" => (result = Null \/ Len(result) = 5)

\* C6: from a dictionary of at least 5 words that admits a valid chain, with
\* an unbounded attempt budget and fair random picks, tryBuildChain
\* eventually returns a valid chain; from a dictionary of at least 5 words
\* that admits none, no attempt completes and every bounded call ends
\* returning null.
C6_EventuallyBuilds ==
    /\ (Len(tb_words) >= 5 /\ ChainsOf[tb_words] # {} /\ maxTries = Infinity)
          ~> (pc = "done" /\ result \in ChainsOf[tb_words])
    /\ [](Len(tb_words) >= 5 /\ ChainsOf[tb_words] = {}
            => ~(pc = "after" /\ ok) /\ pc # "threw"
               /\ (pc = "done" => result = Null))
    /\ (Len(tb_words) >= 5 /\ ChainsOf[tb_words] = {} /\ maxTries # Infinity)
          ~> (pc = "done" /\ result = Null)

\* an unbounded call that saw an attempt abort and still returned a chain
C6_Witness ==
    /\ maxTries = Infinity
    /\ Len(tb_words) >= 5
    /\ t >= 1
    /\ pc = "done"
    /\ result \in ChainsOf[tb_words]

-----------------------------------------------------------------------------
(* Properties of the page *)

gameState == <<words, idx, greenCount, typed, active>>

keyEvent == \E key \in Keys : onKeyDown(key)

\* C2: while a word-completion delay is pending (after the submit that brought
\* greenCount to 5, before completeWord advances idx), every key event is a
\* no-op: it changes no field of the game state and starts no further
\* completion.
C2_InputIgnoredDuringDelay ==
    [][((\E k \in 1..Len(pending) : pending[k] = "cur") /\ keyEvent)
          => UNCHANGED <<gameState, pending>>]_vars

\* C3: a completion scheduled during the previous game never changes idx,
\* greenCount, typed or active of the game newGame has installed since.
C3_StaleCompletionIgnored ==
    [][(pending # <<>> /\ Head(pending) = "old" /\ completeWord)
          => UNCHANGED <<idx, greenCount, typed, active>>]_vars

\* C4: in every reachable state idx is an integer in 0..5.
C4_WordIndexInRange == idx \in 0..5

\* C7: in every reachable state greenCount is in 0..5 and
\* greenCount + typed.length <= 5.
C7_RowNeverOverfull ==
    /\ greenCount \in 0..5
    /\ greenCount + Len(typed) <= 5

\* a letter key arrived on a full row holding typed letters and was dropped
C7_Witness ==
    /\ last = "letter-full"
    /\ Len(typed) > 0
    /\ greenCount + Len(typed) = 5

\* C8: once the fifth word has been completed (idx has reached 5) active is
\* false, and while the game is not active no character, backspace or submit
\* event changes words, idx, greenCount, typed or active.
C8_FinishedIgnoresKeys ==
    /\ [](idx >= 5 => ~active)
    /\ [][(~active /\ keyEvent) => UNCHANGED gameState]_vars

\* a key pressed after the fifth word was completed
C8_Witness ==
    /\ idx = 5
    /\ ~active
    /\ last = "key-inactive"

\* the length of the longest prefix of ty that equals target from (0-based)
\* position g on
LeadingMatches(ty, target, g) ==
    LET Matches(n) == \A k \in 1..n : ty[k] = charAt(target, g + k - 1)
    IN  CHOOSE n \in 0..Len(ty) :
            Matches(n) /\ \A m \in 0..Len(ty) : Matches(m) => m <= n

\* C9: a submit with greenCount + typed.length >= 5 adds to greenCount the
\* length of the longest prefix of typed that matches the target word from
\* position greenCount on; a wrong first typed character leaves greenCount
\* unchanged; a partial result names position greenCount + 1.
C9_SubmitAddsLeadingMatches ==
    [][(active /\ greenCount + Len(typed) >= 5 /\ onKeyDown("Enter")) =>
          /\ greenCount' = greenCount + LeadingMatches(typed, words[idx + 1], greenCount)
          /\ (typed # <<>> /\ typed[1] # words[idx + 1][greenCount + 1])
                => greenCount' = greenCount
          /\ greenCount' < 5 =>
                statusEl' = Status("Good! Next letter is position", greenCount' + 1, "")]_vars

\* a submit that matched the second letter and stopped at a wrong third one
C9_Witness ==
    /\ active
    /\ greenCount = 2
    /\ typed = <<>>
    /\ statusEl = Status("Good! Next letter is position", 3, "")

\* C10: a submit while active with greenCount + typed.length < 5 changes
\* nothing of the game state (typed is kept) and only shows "Too short.".
C10_TooShortSubmitKeepsState ==
    [][(active /\ greenCount + Len(typed) < 5 /\ onKeyDown("Enter")) =>
          /\ UNCHANGED <<gameState, timerId, liveTimers, pending>>
          /\ statusEl' = Status("Too short.", 0, "")]_vars

\* a too-short submit with three letters typed, all three still there
C10_Witness ==
    /\ last = "enter-short"
    /\ Len(typed) = 3
    /\ greenCount = 1

\* C11: a submit made while the game is active with greenCount + typed.length
\* >= 5 always leaves typed empty, however many of the typed letters matched.
C11_SubmitClearsTyped ==
    [][(active /\ greenCount + Len(typed) >= WordLen /\ onKeyDown("Enter")) =>
          typed' = <<>>]_vars

\* after a submit of four letters of which the first two matched and the
\* third did not: three letters are green and the buffer is empty
C11_Witness ==
    /\ active
    /\ greenCount = 3
    /\ typed = <<>>
    /\ statusEl = Status("Good! Next letter is position", 4, "")

\* C12: a submit whose typed buffer is the whole remaining suffix of the
\* target word brings greenCount to 5 and starts a word completion; a word
\* completion advances idx by exactly 1, and then, if the new idx is below 5,
\* the next word starts with greenCount = 1 and typed empty, otherwise the
\* game is finished with active = false.
C12_FullSuffixCompletesWord ==
    [][/\ (/\ active
           /\ typed = SubSeq(words[idx + 1], greenCount + 1, WordLen)
           /\ onKeyDown("Enter"))
          => /\ greenCount' = WordLen
             /\ Len(pending') = Len(pending) + 1
       /\ completeWord
          => /\ idx' = idx + 1
             /\ idx' < ChainLen => (greenCount' = 1 /\ typed' = <<>> /\ active' = active)
             /\ idx' >= ChainLen => ~active']_vars

\* the fifth word has been completed and no completion is left sleeping
C12_Witness ==
    /\ idx = ChainLen
    /\ ~active
    /\ statusEl.msg = "Solved in"
    /\ pending = <<>>

\* C13: a backspace never changes greenCount or idx; when the game is active
\* and typed is not empty it removes exactly the last character of typed;
\* when typed is empty or the game is not active it changes nothing.
C13_BackspaceFrame ==
    [][onKeyDown("Backspace") =>
          /\ UNCHANGED <<greenCount, idx>>
          /\ IF active /\ typed # <<>>
             THEN /\ Len(typed') = Len(typed) - 1
                  /\ \A k \in 1..Len(typed') : typed'[k] = typed[k]
                  /\ UNCHANGED <<words, active, pending, timerId, liveTimers>>
             ELSE UNCHANGED <<gameState, pending, timerId, liveTimers,
                              timerEl, statusEl>>]_vars

\* a backspace on an empty buffer with three green letters in place
C13_Witness ==
    /\ last = "backspace-empty"
    /\ active
    /\ typed = <<>>
    /\ greenCount = 3

\* C15: in every state between two events in which the game is active and
\* idx < 5, greenCount >= 1: the hint letter of the current word is always
\* confirmed.
C15_HintAlwaysGreen ==
    (active /\ idx < ChainLen) => greenCount >= 1

\* the last word has just been revealed: only its hint letter is green
C15_Witness ==
    /\ active
    /\ idx = ChainLen - 1
    /\ greenCount = 1
    /\ statusEl.msg = "Word"

\* a step that installs a new game
installStep ==
    /\ newGame \/ loadWordsResolved
    /\ statusEl'.msg = "Type letters. Word 1 starts with"

\* C16: a timer tick never changes words, idx, greenCount, typed or active;
\* at most one interval is live at any time; a new game clears the previous
\* game's interval before it starts its own; completing the fifth word
\* clears the interval.
C16_TickFrameOneTimer ==
    [][/\ (\E id \in liveTimers : tick(id)) => UNCHANGED gameState
       /\ Cardinality(liveTimers') <= 1
       /\ installStep => (timerId' # 0 /\ liveTimers' = {timerId'})
       /\ (completeWord /\ idx' >= ChainLen)
             => (timerId' = 0 /\ liveTimers' = {})]_vars

\* a new game was installed while the previous game's timer was running (one
\* of its completions is still sleeping), and its own timer has ticked
C16_Witness ==
    /\ active
    /\ \E k \in 1..Len(pending) : pending[k] = "old"
    /\ timerEl = "mm:ss"
    /\ liveTimers = {timerId}

AlphabeticKeys == {"a", "b", "C"}

Uppercased(key) ==
    CASE key = "a" -> "A"
      [] key = "b" -> "B"
      [] key = "C" -> "C"

\* C17: a character event changes nothing when the game is not active, when
\* the key is not a single alphabetic character, or when greenCount +
\* typed.length >= 5; otherwise it appends exactly the uppercased character
\* to typed and changes neither greenCount nor idx.
C17_CharAppendsUppercased ==
    [][\A key \in Keys \ {"Enter", "Backspace"} :
          onKeyDown(key) =>
             IF ~active \/ key \notin AlphabeticKeys
                        \/ greenCount + Len(typed) >= WordLen
             THEN UNCHANGED <<gameState, pending, timerId, liveTimers,
                              timerEl, statusEl>>
             ELSE /\ typed' = Append(typed, Uppercased(key))
                  /\ UNCHANGED <<words, idx, greenCount, active, pending,
                                 timerId, liveTimers>>]_vars

\* "b" then "a" typed on the first word
C17_Witness ==
    /\ active
    /\ idx = 0
    /\ greenCount = 1
    /\ typed = <<"B", "A">>

\* C18: across any single step other than the start of a new game, idx never
\* decreases, and if idx is unchanged then greenCount does not decrease.
C18_ProgressMonotone ==
    [][(newGame \/ loadWordsResolved)
          \/ (idx' >= idx /\ (idx' = idx => greenCount' >= greenCount))]_vars

\* on the second word, a submit has raised greenCount from 1 to 3
C18_Witness ==
    /\ active
    /\ idx = 1
    /\ greenCount = 3
    /\ statusEl = Status("Good! Next letter is position", 4, "")

\* C19: idx advances past a word only after a submit has confirmed all 5
\* letters of that word, so no word is skipped and the game finishes only
\* after each of the five words was confirmed, whatever the interleaving of
\* submits and completions.
C19_AdvanceOnlyWhenConfirmed ==
    [][idx' > idx => greenCount = WordLen]_vars

\* C20: when a new game is requested and tryBuildChain fails on the first call
\* and on all 3 retries, words, idx, greenCount, typed, active and the running
\* timer are left exactly as they were; a new game is installed only with the
\* first chain that one of at most 4 tryBuildChain calls returns.
C20_FailedBuildKeepsGame ==
    [][((newGame \/ loadWordsResolved) /\ cacheSet') =>
          /\ \A o \in newGameChains[cache'] :
                /\ o.calls \in 1..4
                /\ o.kind = "null" => o.calls = 4
                /\ o.kind = "chain" => o.chain \in ChainsOf[cache']
          /\ (cache' # <<>> /\ ChainsOf[cache'] = {})
                => statusEl'.msg = "Could not build a valid chain."
          /\ statusEl'.msg = "Could not build a valid chain."
                => /\ UNCHANGED <<gameState, timerId, liveTimers, timerEl, pending>>
                   /\ statusEl'.n = 4
          /\ (gameState' # gameState \/ timerId' # timerId)
                => /\ words' \in ChainsOf[cache']
                   /\ idx' = 0
                   /\ greenCount' = 1
                   /\ typed' = <<>>
                   /\ active'
                   /\ statusEl'.msg = "Type letters. Word 1 starts with"]_vars

\* a new game was requested during a game on its third word and all four
\* tryBuildChain calls failed: the game is still there, its timer running
C20_Witness ==
    /\ statusEl = Status("Could not build a valid chain.", 4, "")
    /\ active
    /\ idx = 2
    /\ typed # <<>>
    /\ liveTimers = {timerId}

====
